---------------------------- MODULE Spec2Model ----------------------------
(***************************************************************************)
(* IoTSFT (src/unnamed/part_003, lines 1-480): an ERC-3525 semi-fungible   *)
(* token ledger for IoT devices.                                           *)
(*                                                                         *)
(* The contract state is the token table of the ERC3525 base (owner, slot, *)
(* balance per token id, and each owner's enumeration list), the token id  *)
(* counter, the device-type-to-slot table and the package tables.  Every   *)
(* external function is one action.  A call is executed step by step on a  *)
(* working copy of the ledger; a failing require leaves the working copy   *)
(* as it was at the failing step and records the revert reason, and        *)
(* Transact then applies the transaction semantics of the host: the        *)
(* working copy is committed when the call succeeded and dropped when it   *)
(* reverted.  `last` records the call made last (function, caller,         *)
(* arguments, revert reason, "" for success, and returned value) and `pre` *)
(* the ledger before it, so that the effect of a call is a predicate of    *)
(* the state after it; the record is dropped (Settle) before the next      *)
(* call.                                                                   *)
(*                                                                         *)
(* The primitives _mint, _burnValue, _transferValue, balanceOf, ownerOf,   *)
(* slotOf and tokenOfOwnerByIndex come from the imported ERC3525 base      *)
(* (part_003 line 4); they are modelled as the reference implementation    *)
(* behaves at the call sites of this contract.  Token owners are plain     *)
(* accounts, so the receiver hook of _transferValue always accepts.  The   *)
(* inherited public entry points of the base and of Ownable are not part   *)
(* of the model: the contract owner is the deployer throughout.            *)
(***************************************************************************)
EXTENDS Integers, Sequences, FiniteSets, TLC

\* ------------------------------------------------------------- bounds
\* Token ids 1..MaxTokenId can be allocated; a call that would move the
\* token id counter past MaxTokenId + 1 is not taken.
MaxTokenId == 2
\* A call that would bring the sum of all balances above MaxSupply is not
\* taken; values and amounts range over 0..MaxSupply.
MaxSupply == 2

\* ------------------------------------------------------------- constants
\* enum DeviceType has twelve members, 0..11.
NumDeviceTypes == 12

Zero == "0x0"
Deployer == "deployer"
Addresses == {Zero, Deployer, "user"}
Callers == Addresses \ {Zero}
DeviceType == 0..(NumDeviceTypes - 1)
\* The device types calls are made with: TemperatureSensor, CrowdDensitySensor.
DeviceTypeArgs == {0, 1}
TokenIdArgs == 1..MaxTokenId
ValueArgs == 0..MaxSupply
AmountArgs == 0..MaxSupply
SlotArgs == 0..2
PackageName == "bundle"
\* createDevicePackage is called with lists of these lengths.
ListLengths == {0, 1}

VARIABLES
    tokenIdCounter,     \* uint256 _tokenIdCounter
    tokens,             \* ERC3525 token table: id -> [owner, slot, balance]
    ownedTokens,        \* ERC3525 owner enumeration: address -> Seq(id)
    deviceToSlot,       \* mapping(DeviceType => uint256)
    devicePackages,     \* mapping(uint256 => DevicePackage), written keys only
    tokenToPackage,     \* mapping(uint256 => uint256), written keys only
    packageIdCounter,   \* uint256 _packageIdCounter
    last,               \* the last call: [op, caller, a, err, ret], or Idle
    pre                 \* the ledger before the last call

ledgerVars == <<tokenIdCounter, tokens, ownedTokens, deviceToSlot,
                devicePackages, tokenToPackage, packageIdCounter>>
vars == <<tokenIdCounter, tokens, ownedTokens, deviceToSlot,
          devicePackages, tokenToPackage, packageIdCounter, last, pre>>

\* The ledger as one record: the working copy a call executes on.
Ledger ==
    [tokenIdCounter |-> tokenIdCounter, tokens |-> tokens,
     ownedTokens |-> ownedTokens, deviceToSlot |-> deviceToSlot,
     devicePackages |-> devicePackages, tokenToPackage |-> tokenToPackage,
     packageIdCounter |-> packageIdCounter]

\* ------------------------------------------------- execution results
\* err = "" is success; ret is the value the call returns (0 when none).
Ok(st) == [st |-> st, err |-> "", ret |-> 0]
Return(st, v) == [st |-> st, err |-> "", ret |-> v]
Fail(st, msg) == [st |-> st, err |-> msg, ret |-> 0]

\* A reverted call keeps nothing of its working copy (mutant: it does).
TransactNoRevert(before, r) == r.st

\* require(...) failing reverts the whole transaction: the state after a
\* call is the working copy on success and the state before it on failure.
Transact(before, r) == IF r.err = "" THEN r.st ELSE before

\* ------------------------------------------------- ERC3525 base
_exists(st, tokenId) == tokenId \in DOMAIN st.tokens

\* balanceOf(address): the number of tokens the address owns.
balanceOfOwner(st, owner) == Len(st.ownedTokens[owner])

\* tokenOfOwnerByIndex(owner, i), i counted from 0 as in the code.
tokenOfOwnerByIndex(st, owner, i) == st.ownedTokens[owner][i + 1]

__mintToken(st, to, tokenId, slot) ==
    [st EXCEPT
        !.tokens = [id \in DOMAIN st.tokens \cup {tokenId} |->
                      IF id = tokenId
                      THEN [owner |-> to, slot |-> slot, balance |-> 0]
                      ELSE st.tokens[id]],
        !.ownedTokens[to] = Append(@, tokenId)]

__mintValue(st, tokenId, value) ==
    [st EXCEPT !.tokens[tokenId].balance = @ + value]

_mint(st, to, tokenId, slot, value) ==
    IF to = Zero THEN Fail(st, "ERC3525: mint to the zero address")
    ELSE IF tokenId = 0 THEN Fail(st, "ERC3525: cannot mint zero tokenId")
    ELSE IF _exists(st, tokenId) THEN Fail(st, "ERC3525: token already minted")
    ELSE Ok(__mintValue(__mintToken(st, to, tokenId, slot), tokenId, value))

_burnValue(st, tokenId, burnValue) ==
    IF ~_exists(st, tokenId) THEN Fail(st, "ERC3525: invalid token ID")
    ELSE IF burnValue > st.tokens[tokenId].balance
    THEN Fail(st, "ERC3525: burn value exceeds balance")
    ELSE Ok([st EXCEPT !.tokens[tokenId].balance = @ - burnValue])

\* fromTokenData.balance -= value; toTokenData.balance += value: the two
\* writes go to the same storage slot when fromTokenId = toTokenId.
_transferValue(st, fromTokenId, toTokenId, value) ==
    IF ~_exists(st, fromTokenId)
    THEN Fail(st, "ERC3525: transfer from invalid token ID")
    ELSE IF ~_exists(st, toTokenId)
    THEN Fail(st, "ERC3525: transfer to invalid token ID")
    ELSE IF st.tokens[fromTokenId].balance < value
    THEN Fail(st, "ERC3525: insufficient balance for transfer")
    ELSE IF st.tokens[fromTokenId].slot # st.tokens[toTokenId].slot
    THEN Fail(st, "ERC3525: transfer to token with different slot")
    ELSE LET s1 == [st EXCEPT !.tokens[fromTokenId].balance = @ - value]
         IN  Ok([s1 EXCEPT !.tokens[toTokenId].balance = @ + value])

\* ------------------------------------------------- IoTSFT
\* The groups with MotionSensor left among the sensors of slot 0.
DeviceGroupsMotionInSlot0 ==
    [d \in DeviceType |->
        CASE d \in {0, 2, 3, 4, 5, 6, 7} -> 0
          [] d \in {1, 8, 9} -> 1
          [] OTHER -> 2]

DeviceGroups ==
    [d \in DeviceType |->
        CASE d \in {0, 2, 3, 5, 6, 7} -> 0
          [] d \in {1, 4, 8, 9} -> 1
          [] OTHER -> 2]

initializeDeviceGroupsExec(st, caller) ==
    IF caller # Deployer THEN Fail(st, "Ownable: caller is not the owner")
    ELSE Ok([st EXCEPT !.deviceToSlot = DeviceGroups])

\* Mutant: the id is taken after the increment (++counter).
mintExecPreIncrement(st, caller, to, deviceType, value) ==
    IF caller # Deployer THEN Fail(st, "Ownable: caller is not the owner")
    ELSE LET s1 == [st EXCEPT !.tokenIdCounter = @ + 1]
         IN  _mint(s1, to, s1.tokenIdCounter, s1.deviceToSlot[deviceType], value)

\* Mutant: the onlyOwner modifier is missing.
mintExecUnguarded(st, caller, to, deviceType, value) ==
    LET s1 == [st EXCEPT !.tokenIdCounter = @ + 1]
    IN  _mint(s1, to, st.tokenIdCounter, s1.deviceToSlot[deviceType], value)

\* mint with the device type itself as slot, not its group.
mintExecDirectSlot(st, caller, to, deviceType, value) ==
    IF caller # Deployer THEN Fail(st, "Ownable: caller is not the owner")
    ELSE LET s1 == [st EXCEPT !.tokenIdCounter = @ + 1]
         IN  _mint(s1, to, st.tokenIdCounter, deviceType, value)

mintExec(st, caller, to, deviceType, value) ==
    IF caller # Deployer THEN Fail(st, "Ownable: caller is not the owner")
    ELSE LET tokenId == st.tokenIdCounter
             s1 == [st EXCEPT !.tokenIdCounter = @ + 1]
             slot == s1.deviceToSlot[deviceType]
         IN  _mint(s1, to, tokenId, slot, value)

\* Mutant: the new token is minted without burning the source.
splitValueExecNoBurn(st, caller, tokenId, amount, to) ==
    IF ~_exists(st, tokenId) THEN Fail(st, "ERC3525: invalid token ID")
    ELSE IF ~(st.tokens[tokenId].balance >= amount)
    THEN Fail(st, "Insufficient value")
    ELSE LET s2 == [st EXCEPT !.tokenIdCounter = @ + 1]
         IN  _mint(s2, to, st.tokenIdCounter, st.tokens[tokenId].slot, amount)

\* Mutant: a split of the whole balance burns the emptied source token.
splitValueExecBurnEmptied(st, caller, tokenId, amount, to) ==
    IF ~_exists(st, tokenId) THEN Fail(st, "ERC3525: invalid token ID")
    ELSE IF ~(st.tokens[tokenId].balance >= amount)
    THEN Fail(st, "Insufficient value")
    ELSE LET b == _burnValue(st, tokenId, amount)
             s2 == [b.st EXCEPT !.tokenIdCounter = @ + 1]
             m == _mint(s2, to, b.st.tokenIdCounter, b.st.tokens[tokenId].slot, amount)
             NotIt(id) == id # tokenId
         IN  IF m.err # "" \/ m.st.tokens[tokenId].balance > 0 THEN m
             ELSE Ok([m.st EXCEPT
                        !.tokens = [id \in DOMAIN m.st.tokens \ {tokenId} |->
                                      m.st.tokens[id]],
                        !.ownedTokens = [o \in Addresses |->
                                      SelectSeq(m.st.ownedTokens[o], NotIt)]])

\* Mutant: an amount above the balance splits off what there is.
splitValueExecPartial(st, caller, tokenId, amount, to) ==
    IF ~_exists(st, tokenId) THEN Fail(st, "ERC3525: invalid token ID")
    ELSE LET a == IF amount > st.tokens[tokenId].balance
                  THEN st.tokens[tokenId].balance ELSE amount
             b == _burnValue(st, tokenId, a)
             s2 == [b.st EXCEPT !.tokenIdCounter = @ + 1]
         IN  _mint(s2, to, b.st.tokenIdCounter, b.st.tokens[tokenId].slot, a)

\* splitValue with the owner check of mergeValue (line 76) put in front.
splitValueExecOwnerOnly(st, caller, tokenId, amount, to) ==
    IF ~_exists(st, tokenId) THEN Fail(st, "ERC3525: invalid token ID")
    ELSE IF st.tokens[tokenId].owner # caller THEN Fail(st, "Not token owner")
    ELSE IF ~(st.tokens[tokenId].balance >= amount)
    THEN Fail(st, "Insufficient value")
    ELSE LET b == _burnValue(st, tokenId, amount)
         IN  IF b.err # "" THEN b
             ELSE LET slot == b.st.tokens[tokenId].slot
                      newTokenId == b.st.tokenIdCounter
                      s2 == [b.st EXCEPT !.tokenIdCounter = @ + 1]
                  IN  _mint(s2, to, newTokenId, slot, amount)

splitValueExec(st, caller, tokenId, amount, to) ==
    IF ~_exists(st, tokenId) THEN Fail(st, "ERC3525: invalid token ID")
    ELSE IF ~(st.tokens[tokenId].balance >= amount)
    THEN Fail(st, "Insufficient value")
    ELSE LET b == _burnValue(st, tokenId, amount)
         IN  IF b.err # "" THEN b
             ELSE LET slot == b.st.tokens[tokenId].slot
                      newTokenId == b.st.tokenIdCounter
                      s2 == [b.st EXCEPT !.tokenIdCounter = @ + 1]
                  IN  _mint(s2, to, newTokenId, slot, amount)

\* Mutant: the owner check is made on the destination token.
mergeValueExecOwnerOfTo(st, caller, fromTokenId, toTokenId, amount) ==
    IF ~_exists(st, toTokenId) THEN Fail(st, "ERC3525: invalid token ID")
    ELSE IF st.tokens[toTokenId].owner # caller
    THEN Fail(st, "Not token owner")
    ELSE IF ~_exists(st, fromTokenId) THEN Fail(st, "ERC3525: invalid token ID")
    ELSE IF st.tokens[fromTokenId].slot # st.tokens[toTokenId].slot
    THEN Fail(st, "Different slots")
    ELSE _transferValue(st, fromTokenId, toTokenId, amount)

\* Mutant: the destination is credited without debiting the source.
mergeValueExecNoDebit(st, caller, fromTokenId, toTokenId, amount) ==
    IF ~_exists(st, fromTokenId) THEN Fail(st, "ERC3525: invalid token ID")
    ELSE IF st.tokens[fromTokenId].owner # caller
    THEN Fail(st, "Not token owner")
    ELSE IF ~_exists(st, toTokenId) THEN Fail(st, "ERC3525: invalid token ID")
    ELSE IF st.tokens[fromTokenId].slot # st.tokens[toTokenId].slot
    THEN Fail(st, "Different slots")
    ELSE IF st.tokens[fromTokenId].balance < amount
    THEN Fail(st, "ERC3525: insufficient balance for transfer")
    ELSE Ok([st EXCEPT !.tokens[toTokenId].balance = @ + amount])

mergeValueExec(st, caller, fromTokenId, toTokenId, amount) ==
    IF ~_exists(st, fromTokenId) THEN Fail(st, "ERC3525: invalid token ID")
    ELSE IF st.tokens[fromTokenId].owner # caller
    THEN Fail(st, "Not token owner")
    ELSE IF ~_exists(st, toTokenId) THEN Fail(st, "ERC3525: invalid token ID")
    ELSE IF st.tokens[fromTokenId].slot # st.tokens[toTokenId].slot
    THEN Fail(st, "Different slots")
    ELSE _transferValue(st, fromTokenId, toTokenId, amount)

\* The collecting loop of the bulk merges: for (i = 0; i < balance; i++),
\* the owner's tokens of `slot` other than `except`, in enumeration order
\* (except = 0, which is no token id, where the code excludes nothing).
RECURSIVE collectTokens(_, _, _, _, _, _)
collectTokens(st, owner, slot, except, i, acc) ==
    IF ~(i < balanceOfOwner(st, owner)) THEN acc
    ELSE LET tokenId == tokenOfOwnerByIndex(st, owner, i)
         IN  collectTokens(st, owner, slot, except, i + 1,
                 IF tokenId # except /\ st.tokens[tokenId].slot = slot
                 THEN Append(acc, tokenId) ELSE acc)

\* for (i = from; i < count; i++) { if (balance > 0) _transferValue(...) },
\* i counted from 1 here; stops at the first reverting transfer.
RECURSIVE mergeLoop(_, _, _, _)
mergeLoop(st, list, i, target) ==
    IF i > Len(list) THEN Ok(st)
    ELSE LET tokenBalance == st.tokens[list[i]].balance
         IN  IF tokenBalance > 0
             THEN LET r == _transferValue(st, list[i], target, tokenBalance)
                  IN  IF r.err # "" THEN r
                      ELSE mergeLoop(r.st, list, i + 1, target)
             ELSE mergeLoop(st, list, i + 1, target)

\* mergeAllToTarget without the require that the caller owns the target.
mergeAllToTargetExecAnyTarget(st, caller, targetTokenId) ==
    IF ~_exists(st, targetTokenId) THEN Fail(st, "ERC3525: invalid token ID")
    ELSE LET targetSlot == st.tokens[targetTokenId].slot
             tokensToMerge ==
                 collectTokens(st, caller, targetSlot, targetTokenId, 0, << >>)
         IN  mergeLoop(st, tokensToMerge, 1, targetTokenId)

mergeAllToTargetExec(st, caller, targetTokenId) ==
    IF ~_exists(st, targetTokenId) THEN Fail(st, "ERC3525: invalid token ID")
    ELSE IF st.tokens[targetTokenId].owner # caller
    THEN Fail(st, "Not token owner")
    ELSE LET targetSlot == st.tokens[targetTokenId].slot
             tokensToMerge ==
                 collectTokens(st, caller, targetSlot, targetTokenId, 0, << >>)
         IN  mergeLoop(st, tokensToMerge, 1, targetTokenId)

\* optimizeSlot gathering into the last of the slot's tokens, not the first.
optimizeSlotExecIntoLast(st, caller, slot) ==
    LET slotTokens == collectTokens(st, caller, slot, 0, 0, << >>)
    IN  IF Len(slotTokens) <= 1 THEN Ok(st)
        ELSE mergeLoop(st, slotTokens, 1, slotTokens[Len(slotTokens)])

\* optimizeSlot gathering into the slot's token of least balance (the first
\* of them), not into the first token found.
optimizeSlotExecIntoSmallest(st, caller, slot) ==
    LET slotTokens == collectTokens(st, caller, slot, 0, 0, << >>)
        n == Len(slotTokens)
        bal(i) == st.tokens[slotTokens[i]].balance
        least == CHOOSE i \in 1..n :
                    \A j \in 1..n : bal(i) < bal(j) \/ (bal(i) = bal(j) /\ i <= j)
    IN  IF n <= 1 THEN Ok(st)
        ELSE mergeLoop(st, slotTokens, 1, slotTokens[least])

optimizeSlotExec(st, caller, slot) ==
    LET slotTokens == collectTokens(st, caller, slot, 0, 0, << >>)
    IN  IF Len(slotTokens) <= 1 THEN Ok(st)
        ELSE mergeLoop(st, slotTokens, 2, slotTokens[1])

\* benchmarkOptimizeSlot gathering into the last of the slot's tokens.
benchmarkOptimizeSlotExecIntoLast(st, caller, slot) ==
    LET slotTokens == collectTokens(st, caller, slot, 0, 0, << >>)
    IN  IF Len(slotTokens) <= 1 THEN Return(st, 0)
        ELSE LET r == mergeLoop(st, slotTokens, 1, slotTokens[Len(slotTokens)])
             IN  IF r.err # "" THEN r
                 ELSE Return(r.st, Len(slotTokens) - 1)

\* benchmarkOptimizeSlot returning count, not count - 1.
benchmarkOptimizeSlotExecReturnCount(st, caller, slot) ==
    LET slotTokens == collectTokens(st, caller, slot, 0, 0, << >>)
    IN  IF Len(slotTokens) <= 1 THEN Return(st, 0)
        ELSE LET r == mergeLoop(st, slotTokens, 2, slotTokens[1])
             IN  IF r.err # "" THEN r
                 ELSE Return(r.st, Len(slotTokens))

benchmarkOptimizeSlotExec(st, caller, slot) ==
    LET slotTokens == collectTokens(st, caller, slot, 0, 0, << >>)
    IN  IF Len(slotTokens) <= 1 THEN Return(st, 0)
        ELSE LET r == mergeLoop(st, slotTokens, 2, slotTokens[1])
             IN  IF r.err # "" THEN r
                 ELSE Return(r.st, Len(slotTokens) - 1)

\* ------------------------------------------------- views
\* What a view answers: err as for a call, and the lists it returns.
Lists(slots, counts) == [err |-> "", slots |-> slots, counts |-> counts]
NoLists(msg) == [err |-> msg, slots |-> << >>, counts |-> << >>]

\* The scan of getSlotDistribution with the increment of a found slot's
\* count left out.
RECURSIVE distributionLoopNoCount(_, _, _, _, _)
distributionLoopNoCount(st, owner, i, tempSlots, tempCounts) ==
    IF ~(i < balanceOfOwner(st, owner)) THEN Lists(tempSlots, tempCounts)
    ELSE LET slot == st.tokens[tokenOfOwnerByIndex(st, owner, i)].slot
         IN  IF \E j \in 1..Len(tempSlots) : tempSlots[j] = slot
             THEN distributionLoopNoCount(st, owner, i + 1, tempSlots, tempCounts)
             ELSE distributionLoopNoCount(st, owner, i + 1,
                      Append(tempSlots, slot), Append(tempCounts, 1))

\* for (i = 0; i < balance; i++): the slot of the owner's i-th token is looked
\* up among the slots met so far (the first uniqueSlots entries of tempSlots,
\* which are the whole of tempSlots here); a slot found has its count raised,
\* a slot not found is appended with count 1.
RECURSIVE distributionLoop(_, _, _, _, _)
distributionLoop(st, owner, i, tempSlots, tempCounts) ==
    IF ~(i < balanceOfOwner(st, owner)) THEN Lists(tempSlots, tempCounts)
    ELSE LET slot == st.tokens[tokenOfOwnerByIndex(st, owner, i)].slot
             found == {j \in 1..Len(tempSlots) : tempSlots[j] = slot}
         IN  IF found # {}
             THEN LET j == CHOOSE k \in found : \A m \in found : k <= m
                  IN  distributionLoop(st, owner, i + 1, tempSlots,
                          [tempCounts EXCEPT ![j] = @ + 1])
             ELSE distributionLoop(st, owner, i + 1,
                      Append(tempSlots, slot), Append(tempCounts, 1))

getSlotDistributionNoCount(st, owner) ==
    IF owner = Zero THEN NoLists("ERC3525: balance query for the zero address")
    ELSE distributionLoopNoCount(st, owner, 0, << >>, << >>)

\* balanceOf(owner) of the base contract rejects the zero address.
getSlotDistribution(st, owner) ==
    IF owner = Zero THEN NoLists("ERC3525: balance query for the zero address")
    ELSE distributionLoop(st, owner, 0, << >>, << >>)

\* What getTokensBySlot answers.
Ids(ids) == [err |-> "", ids |-> ids]
NoIds(msg) == [err |-> msg, ids |-> << >>]

\* The scan of getTokensBySlot putting each token found in front.
RECURSIVE tokensBySlotLoopReversed(_, _, _, _, _)
tokensBySlotLoopReversed(st, owner, slot, i, tempTokens) ==
    IF ~(i < balanceOfOwner(st, owner)) THEN Ids(tempTokens)
    ELSE LET tokenId == tokenOfOwnerByIndex(st, owner, i)
         IN  tokensBySlotLoopReversed(st, owner, slot, i + 1,
                 IF st.tokens[tokenId].slot = slot
                 THEN <<tokenId>> \o tempTokens ELSE tempTokens)

\* for (i = 0; i < balance; i++): the owner's i-th token is appended when
\* its slot is `slot` (the first count entries of tempTokens are the whole
\* of tempTokens here, and are what is returned).
RECURSIVE tokensBySlotLoop(_, _, _, _, _)
tokensBySlotLoop(st, owner, slot, i, tempTokens) ==
    IF ~(i < balanceOfOwner(st, owner)) THEN Ids(tempTokens)
    ELSE LET tokenId == tokenOfOwnerByIndex(st, owner, i)
         IN  tokensBySlotLoop(st, owner, slot, i + 1,
                 IF st.tokens[tokenId].slot = slot
                 THEN Append(tempTokens, tokenId) ELSE tempTokens)

getTokensBySlotReversed(st, owner, slot) ==
    IF owner = Zero THEN NoIds("ERC3525: balance query for the zero address")
    ELSE tokensBySlotLoopReversed(st, owner, slot, 0, << >>)

\* balanceOf(owner) of the base contract rejects the zero address.
getTokensBySlot(st, owner, slot) ==
    IF owner = Zero THEN NoIds("ERC3525: balance query for the zero address")
    ELSE tokensBySlotLoop(st, owner, slot, 0, << >>)

\* What suggestMerge answers.
Suggestion(fromTokenId, toTokenId, maxAmount, canMerge) ==
    [err |-> "", fromTokenId |-> fromTokenId, toTokenId |-> toTokenId,
     maxAmount |-> maxAmount, canMerge |-> canMerge]

NoSuggestion(msg) ==
    [err |-> msg, fromTokenId |-> 0, toTokenId |-> 0, maxAmount |-> 0,
     canMerge |-> FALSE]

\* The pair scan of suggestMerge with balance1 < balance2 for the test of
\* line 169.
RECURSIVE suggestLoopStrict(_, _, _, _)
suggestLoopStrict(st, owner, i, j) ==
    IF ~(i < balanceOfOwner(st, owner)) THEN Suggestion(0, 0, 0, FALSE)
    ELSE IF ~(j < balanceOfOwner(st, owner))
    THEN suggestLoopStrict(st, owner, i + 1, i + 2)
    ELSE LET token1 == tokenOfOwnerByIndex(st, owner, i)
             token2 == tokenOfOwnerByIndex(st, owner, j)
             balance1 == st.tokens[token1].balance
             balance2 == st.tokens[token2].balance
         IN  IF st.tokens[token1].slot = st.tokens[token2].slot
             THEN IF balance1 < balance2
                  THEN Suggestion(token1, token2, balance1, TRUE)
                  ELSE Suggestion(token2, token1, balance2, TRUE)
             ELSE suggestLoopStrict(st, owner, i, j + 1)

\* for (i = 0; i < balance; i++) for (j = i + 1; j < balance; j++): the first
\* pair of one slot is answered with, the smaller balance as source.
RECURSIVE suggestLoop(_, _, _, _)
suggestLoop(st, owner, i, j) ==
    IF ~(i < balanceOfOwner(st, owner)) THEN Suggestion(0, 0, 0, FALSE)
    ELSE IF ~(j < balanceOfOwner(st, owner))
    THEN suggestLoop(st, owner, i + 1, i + 2)
    ELSE LET token1 == tokenOfOwnerByIndex(st, owner, i)
             token2 == tokenOfOwnerByIndex(st, owner, j)
             balance1 == st.tokens[token1].balance
             balance2 == st.tokens[token2].balance
         IN  IF st.tokens[token1].slot = st.tokens[token2].slot
             THEN IF balance1 <= balance2
                  THEN Suggestion(token1, token2, balance1, TRUE)
                  ELSE Suggestion(token2, token1, balance2, TRUE)
             ELSE suggestLoop(st, owner, i, j + 1)

\* The pair scan of suggestMerge suggesting the larger balance as source.
RECURSIVE suggestLoopFromLarger(_, _, _, _)
suggestLoopFromLarger(st, owner, i, j) ==
    IF ~(i < balanceOfOwner(st, owner)) THEN Suggestion(0, 0, 0, FALSE)
    ELSE IF ~(j < balanceOfOwner(st, owner))
    THEN suggestLoopFromLarger(st, owner, i + 1, i + 2)
    ELSE LET token1 == tokenOfOwnerByIndex(st, owner, i)
             token2 == tokenOfOwnerByIndex(st, owner, j)
             balance1 == st.tokens[token1].balance
             balance2 == st.tokens[token2].balance
         IN  IF st.tokens[token1].slot = st.tokens[token2].slot
             THEN IF balance1 <= balance2
                  THEN Suggestion(token2, token1, balance2, TRUE)
                  ELSE Suggestion(token1, token2, balance1, TRUE)
             ELSE suggestLoopFromLarger(st, owner, i, j + 1)

suggestMergeFromLarger(st, owner) ==
    IF owner = Zero
    THEN NoSuggestion("ERC3525: balance query for the zero address")
    ELSE IF balanceOfOwner(st, owner) < 2 THEN Suggestion(0, 0, 0, FALSE)
    ELSE suggestLoopFromLarger(st, owner, 0, 1)

suggestMergeStrict(st, owner) ==
    IF owner = Zero
    THEN NoSuggestion("ERC3525: balance query for the zero address")
    ELSE IF balanceOfOwner(st, owner) < 2 THEN Suggestion(0, 0, 0, FALSE)
    ELSE suggestLoopStrict(st, owner, 0, 1)

\* balanceOf(owner) of the base contract rejects the zero address.
suggestMerge(st, owner) ==
    IF owner = Zero
    THEN NoSuggestion("ERC3525: balance query for the zero address")
    ELSE IF balanceOfOwner(st, owner) < 2 THEN Suggestion(0, 0, 0, FALSE)
    ELSE suggestLoop(st, owner, 0, 1)

\* ------------------------------------------------- device packages
\* An unwritten key of devicePackages reads as the zero struct.
NoPackage ==
    [packageId |-> 0, packageName |-> "", deviceTypes |-> <<>>,
     totalValue |-> 0, availableValue |-> 0, isActive |-> FALSE]

packageAt(st, packageId) ==
    IF packageId \in DOMAIN st.devicePackages
    THEN st.devicePackages[packageId] ELSE NoPackage

\* An unwritten key of tokenToPackage reads as 0.
tokenToPackageAt(st, tokenId) ==
    IF tokenId \in DOMAIN st.tokenToPackage
    THEN st.tokenToPackage[tokenId] ELSE 0

setPackage(st, packageId, pkg) ==
    [st EXCEPT !.devicePackages =
        [p \in DOMAIN st.devicePackages \cup {packageId} |->
            IF p = packageId THEN pkg ELSE st.devicePackages[p]]]

setTokenToPackage(st, tokenId, packageId) ==
    [st EXCEPT !.tokenToPackage =
        [t \in DOMAIN st.tokenToPackage \cup {tokenId} |->
            IF t = tokenId THEN packageId ELSE st.tokenToPackage[t]]]

_getPackageSlot(st, deviceTypes) ==
    IF Len(deviceTypes) = 0 THEN 0 ELSE st.deviceToSlot[deviceTypes[1]]

_isCompatibleDeviceType(tokenSlot, packageSlot) == tokenSlot = packageSlot

\* The contribution loop of createDevicePackage, i counted from 1; the
\* result's ret is totalPackageValue.
RECURSIVE packageLoop(_, _, _, _, _, _, _, _)
packageLoop(st, caller, tokenIds, amounts, i, packageSlot, packageTokenId, total) ==
    IF i > Len(tokenIds) THEN Return(st, total)
    ELSE IF ~_exists(st, tokenIds[i]) THEN Fail(st, "ERC3525: invalid token ID")
    ELSE IF st.tokens[tokenIds[i]].owner # caller
    THEN Fail(st, "Not token owner")
    ELSE IF ~_isCompatibleDeviceType(st.tokens[tokenIds[i]].slot, packageSlot)
    THEN Fail(st, "Incompatible device type")
    ELSE LET r == _transferValue(st, tokenIds[i], packageTokenId, amounts[i])
         IN  IF r.err # "" THEN r
             ELSE packageLoop(r.st, caller, tokenIds, amounts, i + 1,
                              packageSlot, packageTokenId, total + amounts[i])

\* createDevicePackage without the first require: the device types are not
\* counted against the tokens.
createDevicePackageExecNoLengthCheck(st, caller, packageName, deviceTypes, tokenIds, amounts) ==
    IF Len(tokenIds) # Len(amounts) THEN Fail(st, "Arrays length mismatch")
    ELSE LET packageId == st.packageIdCounter
             s1 == setPackage([st EXCEPT !.packageIdCounter = @ + 1], packageId,
                      [packageId |-> packageId, packageName |-> packageName,
                       deviceTypes |-> deviceTypes, totalValue |-> 0,
                       availableValue |-> 0, isActive |-> TRUE])
             packageSlot == _getPackageSlot(s1, deviceTypes)
             packageTokenId == s1.tokenIdCounter
             s2 == [s1 EXCEPT !.tokenIdCounter = @ + 1]
             l == packageLoop(s2, caller, tokenIds, amounts, 1,
                              packageSlot, packageTokenId, 0)
         IN  IF l.err # "" THEN l
             ELSE IF l.ret > 0
             THEN LET m == _mint(l.st, caller, packageTokenId, packageSlot, l.ret)
                  IN  IF m.err # "" THEN m
                      ELSE LET s3 == setTokenToPackage(m.st, packageTokenId, packageId)
                           IN  Return(setPackage(s3, packageId,
                                   [packageAt(s3, packageId) EXCEPT
                                       !.totalValue = l.ret,
                                       !.availableValue = l.ret]), packageId)
             ELSE Return(l.st, packageId)

\* createDevicePackage minting the package token, with no value, before the
\* loop that transfers into it.
createDevicePackageExecMintFirst(st, caller, packageName, deviceTypes, tokenIds, amounts) ==
    IF Len(deviceTypes) # Len(tokenIds) THEN Fail(st, "Arrays length mismatch")
    ELSE IF Len(tokenIds) # Len(amounts) THEN Fail(st, "Arrays length mismatch")
    ELSE LET packageId == st.packageIdCounter
             s1 == setPackage([st EXCEPT !.packageIdCounter = @ + 1], packageId,
                      [packageId |-> packageId, packageName |-> packageName,
                       deviceTypes |-> deviceTypes, totalValue |-> 0,
                       availableValue |-> 0, isActive |-> TRUE])
             packageSlot == _getPackageSlot(s1, deviceTypes)
             packageTokenId == s1.tokenIdCounter
             s2 == [s1 EXCEPT !.tokenIdCounter = @ + 1]
             m == _mint(s2, caller, packageTokenId, packageSlot, 0)
         IN  IF m.err # "" THEN m
             ELSE LET l == packageLoop(m.st, caller, tokenIds, amounts, 1,
                                       packageSlot, packageTokenId, 0)
                  IN  IF l.err # "" THEN l
                      ELSE LET s3 == setTokenToPackage(l.st, packageTokenId, packageId)
                           IN  Return(setPackage(s3, packageId,
                                   [packageAt(s3, packageId) EXCEPT
                                       !.totalValue = l.ret,
                                       !.availableValue = l.ret]), packageId)

createDevicePackageExec(st, caller, packageName, deviceTypes, tokenIds, amounts) ==
    IF Len(deviceTypes) # Len(tokenIds) THEN Fail(st, "Arrays length mismatch")
    ELSE IF Len(tokenIds) # Len(amounts) THEN Fail(st, "Arrays length mismatch")
    ELSE LET packageId == st.packageIdCounter
             s1 == setPackage([st EXCEPT !.packageIdCounter = @ + 1], packageId,
                      [packageId |-> packageId, packageName |-> packageName,
                       deviceTypes |-> deviceTypes, totalValue |-> 0,
                       availableValue |-> 0, isActive |-> TRUE])
             packageSlot == _getPackageSlot(s1, deviceTypes)
             packageTokenId == s1.tokenIdCounter
             s2 == [s1 EXCEPT !.tokenIdCounter = @ + 1]
             l == packageLoop(s2, caller, tokenIds, amounts, 1,
                              packageSlot, packageTokenId, 0)
         IN  IF l.err # "" THEN l
             ELSE IF l.ret > 0
             THEN LET m == _mint(l.st, caller, packageTokenId, packageSlot, l.ret)
                  IN  IF m.err # "" THEN m
                      ELSE LET s3 == setTokenToPackage(m.st, packageTokenId, packageId)
                           IN  Return(setPackage(s3, packageId,
                                   [packageAt(s3, packageId) EXCEPT
                                       !.totalValue = l.ret,
                                       !.availableValue = l.ret]), packageId)
             ELSE Return(l.st, packageId)

\* The purchase as the comment at line 344 has it (mint first, then one
\* transfer), with neither the check of isActive nor that of availableValue.
purchasePartialPackageExecUnchecked(st, caller, packageTokenId, amount, buyer) ==
    IF ~_exists(st, packageTokenId) THEN Fail(st, "ERC3525: invalid token ID")
    ELSE IF st.tokens[packageTokenId].owner # caller
    THEN Fail(st, "Not package owner")
    ELSE LET packageId == tokenToPackageAt(st, packageTokenId)
             newTokenId == st.tokenIdCounter
             s1 == [st EXCEPT !.tokenIdCounter = @ + 1]
             m == _mint(s1, buyer, newTokenId, s1.tokens[packageTokenId].slot, 0)
         IN  IF m.err # "" THEN m
             ELSE LET t == _transferValue(m.st, packageTokenId, newTokenId, amount)
                  IN  IF t.err # "" THEN t
                      ELSE Ok(setPackage(t.st, packageId,
                              [packageAt(t.st, packageId) EXCEPT
                                  !.availableValue = @ - amount]))

\* The purchase with the token minted before the one transfer and without
\* the check of isActive.
purchasePartialPackageExecNoActiveCheck(st, caller, packageTokenId, amount, buyer) ==
    IF ~_exists(st, packageTokenId) THEN Fail(st, "ERC3525: invalid token ID")
    ELSE IF st.tokens[packageTokenId].owner # caller
    THEN Fail(st, "Not package owner")
    ELSE LET packageId == tokenToPackageAt(st, packageTokenId)
         IN  IF ~(packageAt(st, packageId).availableValue >= amount)
             THEN Fail(st, "Insufficient package value")
             ELSE purchasePartialPackageExecUnchecked(st, caller, packageTokenId,
                                                      amount, buyer)

purchasePartialPackageExec(st, caller, packageTokenId, amount, buyer) ==
    IF ~_exists(st, packageTokenId) THEN Fail(st, "ERC3525: invalid token ID")
    ELSE IF st.tokens[packageTokenId].owner # caller
    THEN Fail(st, "Not package owner")
    ELSE LET packageId == tokenToPackageAt(st, packageTokenId)
         IN  IF ~packageAt(st, packageId).isActive
             THEN Fail(st, "Package not active")
             ELSE IF ~(packageAt(st, packageId).availableValue >= amount)
             THEN Fail(st, "Insufficient package value")
             ELSE LET newTokenId == st.tokenIdCounter
                      s1 == [st EXCEPT !.tokenIdCounter = @ + 1]
                      packageSlot == s1.tokens[packageTokenId].slot
                      t1 == _transferValue(s1, packageTokenId, newTokenId, amount)
                  IN  IF t1.err # "" THEN t1
                      ELSE LET m == _mint(t1.st, buyer, newTokenId, packageSlot, 0)
                           IN  IF m.err # "" THEN m
                               ELSE LET t2 == _transferValue(m.st, packageTokenId,
                                                             newTokenId, amount)
                                    IN  IF t2.err # "" THEN t2
                                        ELSE Ok(setPackage(t2.st, packageId,
                                                [packageAt(t2.st, packageId) EXCEPT
                                                    !.availableValue = @ - amount]))

\* ------------------------------------------------- the state machine
RECURSIVE sumBalances(_, _)
sumBalances(tks, ids) ==
    IF ids = {} THEN 0
    ELSE LET id == CHOOSE x \in ids : TRUE
         IN  tks[id].balance + sumBalances(tks, ids \ {id})

\* The sum of the balances of all tokens of a ledger.
totalValue(st) == sumBalances(st.tokens, DOMAIN st.tokens)

\* No call on record: the state between two transactions.
Idle == [op |-> "idle", caller |-> Zero, a |-> << >>, err |-> "", ret |-> 0]

Init ==
    /\ tokenIdCounter = 1
    /\ tokens = << >>
    /\ ownedTokens = [a \in Addresses |-> << >>]
    /\ deviceToSlot = [d \in DeviceType |-> 0]
    /\ devicePackages = << >>
    /\ tokenToPackage = << >>
    /\ packageIdCounter = 1
    /\ last = Idle
    /\ pre = Ledger

\* One external call `op` by `caller` with arguments a and result r on the
\* ledger before it.
Call(op, caller, a, r) ==
    LET s == Transact(Ledger, r)
    IN  /\ last = Idle
        /\ r.err = "" => /\ r.st.tokenIdCounter <= MaxTokenId + 1
                          /\ totalValue(r.st) <= MaxSupply
        /\ tokenIdCounter' = s.tokenIdCounter
        /\ tokens' = s.tokens
        /\ ownedTokens' = s.ownedTokens
        /\ deviceToSlot' = s.deviceToSlot
        /\ devicePackages' = s.devicePackages
        /\ tokenToPackage' = s.tokenToPackage
        /\ packageIdCounter' = s.packageIdCounter
        /\ last' = [op |-> op, caller |-> caller, a |-> a,
                    err |-> r.err, ret |-> r.ret]
        /\ pre' = Ledger

initializeDeviceGroups(caller) ==
    Call("initializeDeviceGroups", caller, << >>,
         initializeDeviceGroupsExec(Ledger, caller))

mint(caller, to, deviceType, value) ==
    Call("mint", caller,
         [to |-> to, deviceType |-> deviceType, value |-> value],
         mintExec(Ledger, caller, to, deviceType, value))

splitValue(caller, tokenId, amount, to) ==
    Call("splitValue", caller,
         [tokenId |-> tokenId, amount |-> amount, to |-> to],
         splitValueExec(Ledger, caller, tokenId, amount, to))

mergeValue(caller, fromTokenId, toTokenId, amount) ==
    Call("mergeValue", caller,
         [fromTokenId |-> fromTokenId, toTokenId |-> toTokenId,
          amount |-> amount],
         mergeValueExec(Ledger, caller, fromTokenId, toTokenId, amount))

mergeAllToTarget(caller, targetTokenId) ==
    Call("mergeAllToTarget", caller, [targetTokenId |-> targetTokenId],
         mergeAllToTargetExec(Ledger, caller, targetTokenId))

optimizeSlot(caller, slot) ==
    Call("optimizeSlot", caller, [slot |-> slot],
         optimizeSlotExec(Ledger, caller, slot))

benchmarkOptimizeSlot(caller, slot) ==
    Call("benchmarkOptimizeSlot", caller, [slot |-> slot],
         benchmarkOptimizeSlotExec(Ledger, caller, slot))

createDevicePackage(caller, packageName, deviceTypes, tokenIds, amounts) ==
    Call("createDevicePackage", caller,
         [packageName |-> packageName, deviceTypes |-> deviceTypes,
          tokenIds |-> tokenIds, amounts |-> amounts],
         createDevicePackageExec(Ledger, caller, packageName, deviceTypes,
                                 tokenIds, amounts))

purchasePartialPackage(caller, packageTokenId, amount, buyer) ==
    Call("purchasePartialPackage", caller,
         [packageTokenId |-> packageTokenId, amount |-> amount,
          buyer |-> buyer],
         purchasePartialPackageExec(Ledger, caller, packageTokenId, amount, buyer))

\* The record of the last call is dropped before the next call is made.
Settle ==
    /\ last # Idle
    /\ last' = Idle
    /\ pre' = Ledger
    /\ UNCHANGED ledgerVars

\* The lists createDevicePackage is called with.
ListsOf(S) == UNION {[1..n -> S] : n \in ListLengths}

Next ==
    \/ \E caller \in Callers : initializeDeviceGroups(caller)
    \/ \E caller \in Callers, to \in Addresses, deviceType \in DeviceTypeArgs,
          value \in ValueArgs : mint(caller, to, deviceType, value)
    \/ \E caller \in Callers, tokenId \in TokenIdArgs, amount \in AmountArgs,
          to \in Addresses : splitValue(caller, tokenId, amount, to)
    \/ \E caller \in Callers, fromTokenId \in TokenIdArgs,
          toTokenId \in TokenIdArgs, amount \in AmountArgs :
            mergeValue(caller, fromTokenId, toTokenId, amount)
    \/ \E caller \in Callers, targetTokenId \in TokenIdArgs :
            mergeAllToTarget(caller, targetTokenId)
    \/ \E caller \in Callers, slot \in SlotArgs : optimizeSlot(caller, slot)
    \/ \E caller \in Callers, slot \in SlotArgs : benchmarkOptimizeSlot(caller, slot)
    \/ \E caller \in Callers, deviceTypes \in ListsOf(DeviceTypeArgs),
          tokenIds \in ListsOf(TokenIdArgs), amounts \in ListsOf(AmountArgs) :
            createDevicePackage(caller, PackageName, deviceTypes, tokenIds, amounts)
    \/ \E caller \in Callers, packageTokenId \in TokenIdArgs,
          amount \in AmountArgs, buyer \in Addresses :
            purchasePartialPackage(caller, packageTokenId, amount, buyer)
    \/ Settle

Spec == Init /\ [][Next]_vars

\* The ledger createDevicePackage is written to leave (lines 317-323) when
\* `owner` has bundled `total` out of token 1 into package 1: token 1 keeps
\* `rest`, token 2 is the package token. The calls above reach no such
\* ledger, the loop of createDevicePackage reverting at line 313; partial
\* purchases are examined from it.
Packaged(owner, rest, total) ==
    LET l0 == [tokenIdCounter |-> 3, tokens |-> << >>,
               ownedTokens |-> [a \in Addresses |-> << >>],
               deviceToSlot |-> DeviceGroups, devicePackages |-> << >>,
               tokenToPackage |-> << >>, packageIdCounter |-> 2]
        l1 == _mint(l0, owner, 1, DeviceGroups[0], rest).st
        l2 == _mint(l1, owner, 2, DeviceGroups[0], total).st
    IN  setTokenToPackage(
            setPackage(l2, 1,
                [packageId |-> 1, packageName |-> PackageName,
                 deviceTypes |-> <<0>>, totalValue |-> total,
                 availableValue |-> total, isActive |-> TRUE]),
            2, 1)

InitPackaged ==
    \E owner \in Callers, rest \in 0..MaxSupply, total \in 1..MaxSupply :
        /\ rest + total <= MaxSupply
        /\ tokenIdCounter = Packaged(owner, rest, total).tokenIdCounter
        /\ tokens = Packaged(owner, rest, total).tokens
        /\ ownedTokens = Packaged(owner, rest, total).ownedTokens
        /\ deviceToSlot = Packaged(owner, rest, total).deviceToSlot
        /\ devicePackages = Packaged(owner, rest, total).devicePackages
        /\ tokenToPackage = Packaged(owner, rest, total).tokenToPackage
        /\ packageIdCounter = Packaged(owner, rest, total).packageIdCounter
        /\ last = Idle
        /\ pre = Ledger

\* The contract from a ledger that holds a package.
SpecPackaged == InitPackaged /\ [][Next]_vars

\* ------------------------------------------------- properties
Succeeded == last.err = ""
Reverted == last.err # ""
NewTokens == DOMAIN tokens \ DOMAIN pre.tokens
\* No token that existed before the last call differs after it, except ids.
OthersUnchanged(ids) ==
    \A id \in DOMAIN pre.tokens \ ids :
        id \in DOMAIN tokens /\ tokens[id] = pre.tokens[id]

\* C1. Conservation under split: splitValue(T, A, to) on an existing token T
\* with 0 < A <= balance(T) and to # 0 succeeds; it leaves balance(T) reduced
\* by A, creates exactly one new token, owned by `to`, with balance A and the
\* slot of T, so that the two balances add up to the balance of T before;
\* the owner and slot of T and every other token are unchanged.
C1_SplitConservation ==
    (/\ last.op = "splitValue"
     /\ last.a.tokenId \in DOMAIN pre.tokens
     /\ 0 < last.a.amount
     /\ last.a.amount <= pre.tokens[last.a.tokenId].balance
     /\ last.a.to # Zero)
    => LET T == last.a.tokenId
           A == last.a.amount
           V == pre.tokens[T].balance
       IN  /\ Succeeded
           /\ tokens[T].balance = V - A
           /\ tokens[T].owner = pre.tokens[T].owner
           /\ tokens[T].slot = pre.tokens[T].slot
           /\ Cardinality(NewTokens) = 1
           /\ \A n \in NewTokens :
                /\ tokens[n].owner = last.a.to
                /\ tokens[n].balance = A
                /\ tokens[n].slot = pre.tokens[T].slot
                /\ tokens[T].balance + tokens[n].balance = V
           /\ OthersUnchanged({T})

\* A split of part of a token's value has been made.
C1_Witness ==
    /\ last.op = "splitValue"
    /\ Succeeded
    /\ 0 < last.a.amount
    /\ last.a.amount < pre.tokens[last.a.tokenId].balance

\* What a successful mergeValue(F, D, A) does to F and D when F # D.
MergeMoves(F, D, A) ==
    /\ tokens[F].balance = pre.tokens[F].balance - A
    /\ tokens[D].balance = pre.tokens[D].balance + A
    /\ tokens[F].balance + tokens[D].balance
         = pre.tokens[F].balance + pre.tokens[D].balance

\* C2 as claimed. Conservation under merge, the pair F = D included: after a
\* successful mergeValue(F, D, A) balance(F) is down by exactly A, balance(D)
\* is up by exactly A and no other token has changed.
C2_MergeConservationAllPairs ==
    (last.op = "mergeValue" /\ Succeeded)
    => /\ MergeMoves(last.a.fromTokenId, last.a.toTokenId, last.a.amount)
       /\ OthersUnchanged({last.a.fromTokenId, last.a.toTokenId})

\* C2, amended. Conservation under merge: mergeValue(F, D, A) on two existing
\* tokens of one slot, F owned by the caller and A <= balance(F), succeeds;
\* when F # D balance(F) is down by exactly A, balance(D) is up by exactly A
\* and their sum is unchanged; when F = D the balance of the token is
\* unchanged; owners, slots and every other token are unchanged.
C2_MergeConservation ==
    (/\ last.op = "mergeValue"
     /\ last.a.fromTokenId \in DOMAIN pre.tokens
     /\ last.a.toTokenId \in DOMAIN pre.tokens
     /\ pre.tokens[last.a.fromTokenId].owner = last.caller
     /\ pre.tokens[last.a.fromTokenId].slot = pre.tokens[last.a.toTokenId].slot
     /\ last.a.amount <= pre.tokens[last.a.fromTokenId].balance)
    => LET F == last.a.fromTokenId
           D == last.a.toTokenId
       IN  /\ Succeeded
           /\ F # D => MergeMoves(F, D, last.a.amount)
           /\ F = D => tokens[F].balance = pre.tokens[F].balance
           /\ \A id \in {F, D} :
                /\ tokens[id].owner = pre.tokens[id].owner
                /\ tokens[id].slot = pre.tokens[id].slot
           /\ DOMAIN tokens = DOMAIN pre.tokens
           /\ OthersUnchanged({F, D})

\* Value has been merged from one token into another.
C2_Witness ==
    /\ last.op = "mergeValue"
    /\ Succeeded
    /\ last.a.fromTokenId # last.a.toTokenId
    /\ last.a.amount > 0

\* C3. Slot immutability: a token id that exists keeps existing and keeps
\* its slot in every step, whatever the operation.
C3_SlotImmutable ==
    [][\A id \in DOMAIN tokens :
          id \in DOMAIN tokens' /\ tokens'[id].slot = tokens[id].slot]_vars

\* initializeDeviceGroups has succeeded after a CrowdDensitySensor token was
\* minted into slot 0.
C3_Witness ==
    /\ last.op = "initializeDeviceGroups"
    /\ Succeeded
    /\ deviceToSlot[1] = 1
    /\ pre.deviceToSlot[1] = 0
    /\ \E id \in DOMAIN tokens : tokens[id].slot = 0 /\ tokens[id].balance > 0

\* C4. Mint effect: mint(to, deviceType, value) by the contract owner with
\* to # 0 succeeds, for value 0 too; it creates exactly one token, with the
\* id the counter had before the call, owner `to`, slot
\* deviceToSlot[deviceType] as of the call and balance `value`; the counter
\* is one higher and no existing token has changed.
C4_MintEffect ==
    (last.op = "mint" /\ last.caller = Deployer /\ last.a.to # Zero)
    => /\ Succeeded
       /\ pre.tokenIdCounter \notin DOMAIN pre.tokens
       /\ DOMAIN tokens = DOMAIN pre.tokens \cup {pre.tokenIdCounter}
       /\ tokens[pre.tokenIdCounter]
            = [owner |-> last.a.to,
               slot |-> pre.deviceToSlot[last.a.deviceType],
               balance |-> last.a.value]
       /\ tokenIdCounter = pre.tokenIdCounter + 1
       /\ OthersUnchanged({})

\* A zero-value token has been minted into slot 1.
C4_Witness ==
    /\ last.op = "mint"
    /\ Succeeded
    /\ last.a.value = 0
    /\ tokens[pre.tokenIdCounter].slot = 1

\* C5. Mint is privileged: a mint by anyone but the contract owner fails and
\* leaves the ledger as it was.
C5_MintPrivileged ==
    (last.op = "mint" /\ last.caller # Deployer)
    => Reverted /\ Ledger = pre

\* A mint to a non-zero recipient by a caller who is not the contract owner
\* has been rejected.
C5_Witness ==
    /\ last.op = "mint"
    /\ last.caller # Deployer
    /\ last.a.to # Zero
    /\ last.err = "Ownable: caller is not the owner"

\* C6. Token ids are unique, monotonically assigned and never reused: in
\* every step the counter does not decrease, no token id disappears, every
\* token created by the step has an id that is at least the counter before
\* the step and above every id that existed, and every id that exists after
\* the step is at least 1 and below the counter.
C6_TokenIdsMonotonic ==
    [][/\ tokenIdCounter' >= tokenIdCounter
       /\ DOMAIN tokens \subseteq DOMAIN tokens'
       /\ \A n \in DOMAIN tokens' \ DOMAIN tokens :
            /\ n >= tokenIdCounter
            /\ \A id \in DOMAIN tokens : n > id
       /\ \A id \in DOMAIN tokens' : 1 <= id /\ id < tokenIdCounter']_vars

\* A second token has been created, by a split of the first.
C6_Witness ==
    /\ last.op = "splitValue"
    /\ Succeeded
    /\ DOMAIN pre.tokens = {1}
    /\ DOMAIN tokens = {1, 2}

\* C7 as claimed. Token ids are consecutive from 1 with no gaps: the set of
\* existing token ids is exactly {1, ..., n}.
C7_TokenIdsConsecutive ==
    DOMAIN tokens = 1..Cardinality(DOMAIN tokens)

\* C8. mergeValue failure taxonomy: mergeValue(F, D, A) on existing tokens
\* fails and leaves the ledger as it was whenever the caller is not the
\* owner of F, or slot(F) # slot(D), or A > balance(F).
C8_MergeFailures ==
    (/\ last.op = "mergeValue"
     /\ last.a.fromTokenId \in DOMAIN pre.tokens
     /\ last.a.toTokenId \in DOMAIN pre.tokens
     /\ \/ pre.tokens[last.a.fromTokenId].owner # last.caller
        \/ pre.tokens[last.a.fromTokenId].slot
             # pre.tokens[last.a.toTokenId].slot
        \/ last.a.amount > pre.tokens[last.a.fromTokenId].balance)
    => Reverted /\ Ledger = pre

\* The owner of D has tried to pull value out of somebody else's token F of
\* the same slot, an amount F holds, and was rejected.
C8_Witness ==
    /\ last.op = "mergeValue"
    /\ last.a.fromTokenId \in DOMAIN pre.tokens
    /\ last.a.toTokenId \in DOMAIN pre.tokens
    /\ pre.tokens[last.a.fromTokenId].owner # last.caller
    /\ pre.tokens[last.a.toTokenId].owner = last.caller
    /\ pre.tokens[last.a.fromTokenId].slot = pre.tokens[last.a.toTokenId].slot
    /\ 0 < last.a.amount
    /\ last.a.amount <= pre.tokens[last.a.fromTokenId].balance
    /\ last.err = "Not token owner"

\* C9. No partial split: splitValue(T, A, to) with A > balance(T) fails and
\* leaves balance(T), the set of tokens and the token id counter unchanged.
C9_NoPartialSplit ==
    (/\ last.op = "splitValue"
     /\ last.a.tokenId \in DOMAIN pre.tokens
     /\ last.a.amount > pre.tokens[last.a.tokenId].balance)
    => /\ Reverted
       /\ tokens = pre.tokens
       /\ tokenIdCounter = pre.tokenIdCounter

\* A split of more than a non-empty token holds, to a non-zero recipient,
\* has been rejected.
C9_Witness ==
    /\ last.op = "splitValue"
    /\ last.a.tokenId \in DOMAIN pre.tokens
    /\ pre.tokens[last.a.tokenId].balance > 0
    /\ last.a.amount > pre.tokens[last.a.tokenId].balance
    /\ last.a.to # Zero
    /\ last.err = "Insufficient value"

OwnedInSlot(st, owner, slot) ==
    {id \in DOMAIN st.tokens :
        st.tokens[id].owner = owner /\ st.tokens[id].slot = slot}

\* The place of token id in the enumeration of its owner's tokens.
PlaceOf(st, id) ==
    LET owned == st.ownedTokens[st.tokens[id].owner]
    IN  CHOOSE i \in 1..Len(owned) : owned[i] = id

\* The token of the non-empty set S of one owner's tokens that comes first in
\* the owner's enumeration.
FirstOf(st, S) ==
    CHOOSE id \in S : \A o \in S : PlaceOf(st, id) <= PlaceOf(st, o)

C12_OptimizeSlotIdempotent ==
    last.op = "optimizeSlot"
    => LET again == optimizeSlotExec(Ledger, last.caller, last.a.slot)
       IN  again.err = "" /\ Transact(Ledger, again) = Ledger

\* The first of the two calls has moved value.
C12_Witness ==
    /\ last.op = "optimizeSlot"
    /\ Succeeded
    /\ tokens # pre.tokens


RECURSIVE sumOf(_)
sumOf(seq) == IF seq = << >> THEN 0 ELSE Head(seq) + sumOf(Tail(seq))

\* The tokens of a ledger that `owner` owns.
OwnedBy(st, owner) == {id \in DOMAIN st.tokens : st.tokens[id].owner = owner}

RECURSIVE contributed(_, _, _)
contributed(ids, amounts, id) ==
    IF ids = << >> THEN 0
    ELSE (IF Head(ids) = id THEN Head(amounts) ELSE 0)
         + contributed(Tail(ids), Tail(amounts), id)

\* The lists of the createDevicePackage on record are as its documentation
\* asks: of one length, and every listed token exists, is the caller's, has
\* the slot of the first listed device type and holds the listed amounts.
PackageInputsValid ==
    LET a == last.a
    IN  /\ Len(a.deviceTypes) = Len(a.tokenIds)
        /\ Len(a.tokenIds) = Len(a.amounts)
        /\ \A i \in 1..Len(a.tokenIds) :
              /\ a.tokenIds[i] \in DOMAIN pre.tokens
              /\ pre.tokens[a.tokenIds[i]].owner = last.caller
              /\ pre.tokens[a.tokenIds[i]].slot = pre.deviceToSlot[a.deviceTypes[1]]
              /\ contributed(a.tokenIds, a.amounts, a.tokenIds[i])
                    <= pre.tokens[a.tokenIds[i]].balance

\* C14. Package creation: createDevicePackage with three non-empty lists of
\* one length, every listed token owned by the caller, of the slot of the
\* first listed device type and holding at least the listed amount, succeeds;
\* it returns a fresh package id, creates exactly one new token, owned by the
\* caller, in the package slot, with the sum of the amounts as balance and
\* mapped to the package id, lowers each contributed token by its amount and
\* records the package active with totalValue = availableValue = that sum.
C14_PackageCreation ==
    (/\ last.op = "createDevicePackage"
     /\ Len(last.a.tokenIds) >= 1
     /\ PackageInputsValid)
    => LET a == last.a
           total == sumOf(a.amounts)
       IN  /\ Succeeded
           /\ last.ret \notin DOMAIN pre.devicePackages
           /\ last.ret \in DOMAIN devicePackages
           /\ devicePackages[last.ret].isActive
           /\ devicePackages[last.ret].totalValue = total
           /\ devicePackages[last.ret].availableValue = total
           /\ Cardinality(NewTokens) = 1
           /\ \A n \in NewTokens :
                /\ tokens[n].owner = last.caller
                /\ tokens[n].slot = pre.deviceToSlot[a.deviceTypes[1]]
                /\ tokens[n].balance = total
                /\ tokenToPackageAt(Ledger, n) = last.ret
           /\ \A id \in DOMAIN pre.tokens :
                tokens[id].balance
                  = pre.tokens[id].balance - contributed(a.tokenIds, a.amounts, id)


Purchased(p) ==
    IF /\ last.op = "purchasePartialPackage"
       /\ Succeeded
       /\ tokenToPackageAt(pre, last.a.packageTokenId) = p
    THEN last.a.amount ELSE 0

C17_PurchaseFailures ==
    LET P == last.a.packageTokenId
        looked == packageAt(pre, tokenToPackageAt(pre, P))
    IN  (/\ last.op = "purchasePartialPackage"
         /\ \/ P \notin DOMAIN pre.tokens
            \/ pre.tokens[P].owner # last.caller
            \/ ~looked.isActive
            \/ last.a.amount > looked.availableValue)
        => /\ Reverted
           /\ NewTokens = {}
           /\ tokenIdCounter = pre.tokenIdCounter
           /\ tokens = pre.tokens
           /\ ownedTokens = pre.ownedTokens
           /\ devicePackages = pre.devicePackages
           /\ tokenToPackage = pre.tokenToPackage

\* The owner of a token that belongs to no package has been refused a
\* purchase of nothing from it: the package looked up is not active.
C17_Witness ==
    /\ last.op = "purchasePartialPackage"
    /\ last.a.packageTokenId \in DOMAIN pre.tokens
    /\ pre.tokens[last.a.packageTokenId].owner = last.caller
    /\ last.a.packageTokenId \notin DOMAIN pre.tokenToPackage
    /\ last.a.amount = 0
    /\ last.a.buyer # Zero
    /\ last.err = "Package not active"


\* C18. Package creation preconditions: createDevicePackage fails whenever the
\* three lists are not of one length, or some listed token is not the
\* caller's (a token that does not exist included), or some listed token's
\* slot differs from the slot of the first listed device type; the package
\* table, the package id counter, the token id counter and all tokens are as
\* before.
C18_PackageCreationFailures ==
    LET a == last.a
    IN  (/\ last.op = "createDevicePackage"
         /\ \/ Len(a.deviceTypes) # Len(a.tokenIds)
            \/ Len(a.tokenIds) # Len(a.amounts)
            \/ \E i \in 1..Len(a.tokenIds) :
                  \/ a.tokenIds[i] \notin DOMAIN pre.tokens
                  \/ pre.tokens[a.tokenIds[i]].owner # last.caller
                  \/ pre.tokens[a.tokenIds[i]].slot
                       # pre.deviceToSlot[a.deviceTypes[1]])
        => /\ Reverted
           /\ devicePackages = pre.devicePackages
           /\ tokenToPackage = pre.tokenToPackage
           /\ packageIdCounter = pre.packageIdCounter
           /\ tokenIdCounter = pre.tokenIdCounter
           /\ tokens = pre.tokens

\* The caller's own token has been refused for a package of another slot.
C18_Witness ==
    /\ last.op = "createDevicePackage"
    /\ Len(last.a.tokenIds) = 1
    /\ last.a.tokenIds[1] \in DOMAIN pre.tokens
    /\ pre.tokens[last.a.tokenIds[1]].owner = last.caller
    /\ last.err = "Incompatible device type"


\* The tokens of a ledger that are in `slot`.
InSlot(st, slot) == {id \in DOMAIN st.tokens : st.tokens[id].slot = slot}

\* C19. mergeAllToTarget(G): called by the owner of G it succeeds and leaves
\* G with the sum of the balances that the caller's tokens of G's slot had
\* before, every other token of the caller in that slot at balance 0, the
\* tokens of other slots or other owners unchanged, owners and slots as
\* they were and the total value of the slot conserved; called by anyone
\* else (or for a G that does not exist) it fails and changes nothing.
C19_MergeAllToTarget ==
    LET G == last.a.targetTokenId
    IN  last.op = "mergeAllToTarget"
        => IF G \in DOMAIN pre.tokens /\ pre.tokens[G].owner = last.caller
           THEN LET slot == pre.tokens[G].slot
                    S == OwnedInSlot(pre, last.caller, slot)
                IN  /\ Succeeded
                    /\ DOMAIN tokens = DOMAIN pre.tokens
                    /\ tokens[G].balance = sumBalances(pre.tokens, S)
                    /\ \A id \in S \ {G} : tokens[id].balance = 0
                    /\ \A id \in S : /\ tokens[id].owner = last.caller
                                     /\ tokens[id].slot = slot
                    /\ ownedTokens = pre.ownedTokens
                    /\ OthersUnchanged(S)
                    /\ sumBalances(tokens, InSlot(Ledger, slot))
                         = sumBalances(pre.tokens, InSlot(pre, slot))
           ELSE /\ Reverted
                /\ tokens = pre.tokens
                /\ ownedTokens = pre.ownedTokens
                /\ tokenIdCounter = pre.tokenIdCounter

\* The owner of a target has gathered positive value into it.
C19_Witness ==
    /\ last.op = "mergeAllToTarget"
    /\ Succeeded
    /\ tokens[last.a.targetTokenId].balance
         > pre.tokens[last.a.targetTokenId].balance


\* The slots of the twelve device types in the order of the enum:
\* Temperature 0, CrowdDensity 1, Humidity 0, Pressure 0, Motion 1, Light 0,
\* Sound 0, AirQuality 0, GPSTracker 1, Camera 1, Actuator 2, Controller 2.
SlotTable == <<0, 1, 0, 0, 1, 0, 0, 0, 1, 1, 2, 2>>

TableSet == \A d \in DeviceType : deviceToSlot[d] = SlotTable[d + 1]

\* C20. Device-type to slot table: initializeDeviceGroups succeeds exactly
\* for the contract owner; after a successful call, the first or a repeated
\* one, each of the twelve device types maps to one slot of {0, 1, 2}:
\* Temperature, Humidity, Pressure, Light, Sound and AirQuality to 0,
\* CrowdDensity, Motion, GPSTracker and Camera to 1, Actuator and Controller
\* to 2; no other call writes the table, so once set it stays.
C20_DeviceSlotTable ==
    /\ Cardinality(DOMAIN deviceToSlot) = Len(SlotTable)
    /\ \A d \in DOMAIN deviceToSlot : deviceToSlot[d] \in {0, 1, 2}
    /\ last.op = "initializeDeviceGroups"
       => /\ Succeeded <=> last.caller = Deployer
          /\ Succeeded => TableSet
    /\ ~(last.op = "initializeDeviceGroups" /\ Succeeded)
       => deviceToSlot = pre.deviceToSlot
    /\ (\A d \in DeviceType : pre.deviceToSlot[d] = SlotTable[d + 1]) => TableSet

\* The owner has initialized the groups again, tokens having been minted
\* since the first time.
C20_Witness ==
    /\ last.op = "initializeDeviceGroups"
    /\ Succeeded
    /\ \A d \in DeviceType : pre.deviceToSlot[d] = SlotTable[d + 1]
    /\ \E id \in DOMAIN tokens : tokens[id].slot = 1
    /\ TableSet


\* The pairs of places i < j in the enumeration of owner's tokens that hold
\* tokens of one slot.
SameSlotPairs(owner) ==
    LET owned == ownedTokens[owner]
    IN  {p \in (1..Len(owned)) \X (1..Len(owned)) :
            p[1] < p[2] /\ tokens[owned[p[1]]].slot = tokens[owned[p[2]]].slot}

\* The first of a non-empty set of pairs in lexicographic order.
FirstPair(pairs) ==
    CHOOSE p \in pairs :
        \A q \in pairs : p[1] < q[1] \/ (p[1] = q[1] /\ p[2] <= q[2])

\* suggestMerge(owner) does not fail and answers as C21 says.
SuggestionRight(owner) ==
    LET r == suggestMerge(Ledger, owner)
        owned == ownedTokens[owner]
        pairs == SameSlotPairs(owner)
    IN  /\ r.err = ""
        /\ r.canMerge <=> pairs # {}
        /\ IF pairs # {}
           THEN LET a == owned[FirstPair(pairs)[1]]
                    b == owned[FirstPair(pairs)[2]]
                    src == IF tokens[a].balance <= tokens[b].balance THEN a ELSE b
                IN  /\ r.fromTokenId = src
                    /\ r.toTokenId = (IF src = a THEN b ELSE a)
                    /\ r.maxAmount = tokens[src].balance
           ELSE /\ r.fromTokenId = 0
                /\ r.toTokenId = 0
                /\ r.maxAmount = 0

Minted == IF last.op = "mint" /\ Succeeded THEN last.a.value ELSE 0

\* C22. Total value: the sum of the balances of all tokens is 0 at first and
\* changes only by a successful mint, which raises it by the value minted,
\* so that it equals the sum of the values of the successful mints;
\* splitValue, mergeValue, mergeAllToTarget, optimizeSlot,
\* benchmarkOptimizeSlot, createDevicePackage and purchasePartialPackage
\* neither create nor destroy value, and no balance is negative.
C22_TotalValue ==
    /\ totalValue(Ledger) = totalValue(pre) + Minted
    /\ (DOMAIN tokens = {}) => totalValue(Ledger) = 0
    /\ \A id \in DOMAIN tokens : tokens[id].balance >= 0

\* A call other than mint has moved value between tokens.
C22_Witness ==
    /\ last.op \notin {"mint", "idle"}
    /\ Succeeded
    /\ \E id \in DOMAIN pre.tokens : tokens[id].balance # pre.tokens[id].balance
    /\ totalValue(Ledger) = totalValue(pre)


\* C23. splitValue performs no caller authorization: for an existing token T,
\* an amount A <= balance(T) and a recipient other than the zero address,
\* splitValue(T, A, to) succeeds whoever calls it, and the ledger it leaves
\* is the one the same call leaves when made by the owner of T or by any
\* other address.
C23_SplitUnauthorized ==
    (/\ last.op = "splitValue"
     /\ last.a.tokenId \in DOMAIN pre.tokens
     /\ last.a.amount <= pre.tokens[last.a.tokenId].balance
     /\ last.a.to # Zero)
    => /\ Succeeded
       /\ \A caller \in Callers :
            LET r == splitValueExec(pre, caller, last.a.tokenId,
                                    last.a.amount, last.a.to)
            IN  r.err = "" /\ r.st = Ledger /\ r.ret = last.ret

\* An address has split value out of another holder's token into a token
\* of its own.
C23_Witness ==
    /\ last.op = "splitValue"
    /\ Succeeded
    /\ pre.tokens[last.a.tokenId].owner # last.caller
    /\ last.a.to = last.caller
    /\ last.a.amount > 0
    /\ \E n \in NewTokens : tokens[n].owner = last.caller


\* initializeDeviceGroups has not succeeded on ledger st: the table reads 0
\* throughout, which a successful call ends for good (C20).
Uninitialized(st) == \A d \in DeviceType : st.deviceToSlot[d] = 0

\* The owner of token F can merge all of it into token D.
Mergeable(F, D) ==
    mergeValueExec(Ledger, tokens[F].owner, F, D, tokens[F].balance).err = ""

\* C24. Mint before initialization: while initializeDeviceGroups has never
\* succeeded a token created by mint has slot 0 whatever its device type, so
\* that all tokens are of slot 0 and mutually mergeable; a mint after
\* initialization gives the token the slot of its device type's group, and
\* tokens of different slots are not mergeable ("Different slots").
C24_MintBeforeInit ==
    /\ (last.op = "mint" /\ Succeeded)
       => \A n \in NewTokens :
            tokens[n].slot = IF Uninitialized(pre) THEN 0
                             ELSE SlotTable[last.a.deviceType + 1]
    /\ Uninitialized(Ledger)
       => \A F \in DOMAIN tokens, D \in DOMAIN tokens :
            tokens[F].slot = 0 /\ Mergeable(F, D)
    /\ \A F \in DOMAIN tokens, D \in DOMAIN tokens :
          tokens[F].slot # tokens[D].slot
          => mergeValueExec(Ledger, tokens[F].owner, F, D, 0).err
               = "Different slots"

\* A CrowdDensitySensor token minted after initialization is of slot 1 and
\* cannot be merged with the token of slot 0 minted before it.
C24_Witness ==
    /\ last.op = "mint"
    /\ Succeeded
    /\ last.a.deviceType = 1
    /\ \E n \in NewTokens, old \in DOMAIN pre.tokens :
          /\ tokens[n].slot = 1
          /\ tokens[old].slot = 0
          /\ ~Mergeable(old, n)


\* The token the call on record withdraws from, if it is a splitValue or a
\* mergeValue.
WithdrawnFrom ==
    IF last.op = "splitValue" THEN last.a.tokenId ELSE last.a.fromTokenId

\* The call on record is a withdrawal of last.a.amount from an existing
\* token that meets every precondition but, possibly, that on the amount:
\* a splitValue to a recipient other than the zero address, or a mergeValue
\* by the owner into another existing token of the same slot.
IsWithdrawal ==
    \/ /\ last.op = "splitValue"
       /\ last.a.tokenId \in DOMAIN pre.tokens
       /\ last.a.to # Zero
    \/ /\ last.op = "mergeValue"
       /\ last.a.fromTokenId \in DOMAIN pre.tokens
       /\ last.a.toTokenId \in DOMAIN pre.tokens \ {last.a.fromTokenId}
       /\ pre.tokens[last.a.fromTokenId].owner = last.caller
       /\ pre.tokens[last.a.fromTokenId].slot = pre.tokens[last.a.toTokenId].slot

\* Every withdrawal of A from T that can be committed next fails and leaves
\* the ledger as it is.
CompetitorsFail(T, A) ==
    /\ \A caller \in Callers, to \in Addresses \ {Zero} :
          LET r == splitValueExec(Ledger, caller, T, A, to)
          IN  r.err # "" /\ Transact(Ledger, r) = Ledger
    /\ \A D \in DOMAIN tokens \ {T} :
          tokens[D].slot = tokens[T].slot
          => LET r == mergeValueExec(Ledger, tokens[T].owner, T, D, A)
             IN  r.err # "" /\ Transact(Ledger, r) = Ledger

\* C25. Competing withdrawals are serialized: calls being committed one at a
\* time and whole, of two withdrawals of A from a token T of balance V
\* (splitValue or mergeValue) with A <= V < 2A the one committed first
\* succeeds and leaves T at V - A, and the other, whichever it is and
\* whoever makes it, then fails with no effect; so under either commit order
\* exactly one succeeds and T ends at V - A.
C25_WithdrawalsSerialized ==
    LET T == WithdrawnFrom
        A == last.a.amount
    IN  (/\ last.op \in {"splitValue", "mergeValue"}
         /\ IsWithdrawal
         /\ A <= pre.tokens[T].balance
         /\ pre.tokens[T].balance < 2 * A)
        => /\ Succeeded
           /\ tokens[T].balance = pre.tokens[T].balance - A
           /\ CompetitorsFail(T, A)

\* The owner's mergeValue has been committed while another address's
\* splitValue of the same amount out of the same token was possible; the
\* balance left no longer covers it.
C25_Witness ==
    /\ last.op = "mergeValue"
    /\ Succeeded
    /\ IsWithdrawal
    /\ last.a.amount <= pre.tokens[last.a.fromTokenId].balance
    /\ pre.tokens[last.a.fromTokenId].balance < 2 * last.a.amount
    /\ \E caller \in Callers \ {last.caller} :
          /\ splitValueExec(pre, caller, last.a.fromTokenId,
                            last.a.amount, caller).err = ""
          /\ splitValueExec(Ledger, caller, last.a.fromTokenId,
                            last.a.amount, caller).err # ""


\* C26. benchmarkOptimizeSlot refines optimizeSlot: from every reachable
\* state, for every caller and slot, benchmarkOptimizeSlot(slot) and
\* optimizeSlot(slot) succeed or fail together and leave the same ledger
\* (owners, slots, balances, counters, tables).
C26_BenchmarkRefinesOptimize ==
    /\ last.op = "benchmarkOptimizeSlot"
       => LET o == optimizeSlotExec(pre, last.caller, last.a.slot)
          IN  /\ Succeeded <=> o.err = ""
              /\ Ledger = Transact(pre, o)
    /\ last.op = "optimizeSlot"
       => LET b == benchmarkOptimizeSlotExec(pre, last.caller, last.a.slot)
          IN  /\ Succeeded <=> b.err = ""
              /\ Ledger = Transact(pre, b)

\* benchmarkOptimizeSlot has moved value.
C26_Witness ==
    /\ last.op = "benchmarkOptimizeSlot"
    /\ Succeeded
    /\ tokens # pre.tokens


\* The tokens whose balance the call on record has transferred away.
Emptied ==
    {id \in DOMAIN pre.tokens :
        pre.tokens[id].balance > 0 /\ tokens[id].balance = 0}

FirstPlace(owner, slot) ==
    CHOOSE i \in 1..Len(ownedTokens[owner]) :
        /\ tokens[ownedTokens[owner][i]].slot = slot
        /\ \A k \in 1..(i - 1) : tokens[ownedTokens[owner][k]].slot # slot

\* seq lists the elements of the set S, each once.
ListsEachOnce(seq, S) ==
    /\ {seq[i] : i \in 1..Len(seq)} = S
    /\ Len(seq) = Cardinality(S)

\* C28. Slot views agree: getTokensBySlot(owner, s) returns the tokens that
\* owner owns in slot s, each once, in the order of the owner's enumeration;
\* getSlotDistribution(owner) lists each slot the owner holds a token of
\* once, in the order in which the slots first appear in that enumeration,
\* and counts[i] is the length of getTokensBySlot(owner, slots[i]). (The
\* views answer for every address but the zero address.)
C28_SlotViewsAgree ==
    \A owner \in Addresses \ {Zero} :
        LET d == getSlotDistribution(Ledger, owner)
            held == {tokens[id].slot : id \in OwnedBy(Ledger, owner)}
            place(id) == PlaceOf(Ledger, id)
        IN  /\ d.err = ""
            /\ \A s \in SlotArgs :
                  LET t == getTokensBySlot(Ledger, owner, s)
                  IN  /\ t.err = ""
                      /\ ListsEachOnce(t.ids, OwnedInSlot(Ledger, owner, s))
                      /\ \A i \in 1..Len(t.ids), j \in 1..Len(t.ids) :
                            i < j => place(t.ids[i]) < place(t.ids[j])
            /\ ListsEachOnce(d.slots, held)
            /\ Len(d.counts) = Len(d.slots)
            /\ \A i \in 1..Len(d.slots), j \in 1..Len(d.slots) :
                  i < j => FirstPlace(owner, d.slots[i]) < FirstPlace(owner, d.slots[j])
            /\ \A i \in 1..Len(d.slots) :
                  d.counts[i] = Len(getTokensBySlot(Ledger, owner, d.slots[i]).ids)

\* An owner holds a token of slot 1 and then one of slot 0: the distribution
\* lists slot 1 first.
C28_Witness ==
    \E owner \in Addresses \ {Zero} :
        /\ getSlotDistribution(Ledger, owner).slots = <<1, 0>>
        /\ Len(getTokensBySlot(Ledger, owner, 1).ids) = 1


\* C29. suggestMerge is actionable: whenever suggestMerge(owner) returns
\* canMerge = true with (from, to, maxAmount), from and to are two different
\* tokens of owner in one slot, maxAmount = balance(from) <= balance(to), and
\* mergeValue(from, to, maxAmount) called by owner in that state succeeds,
\* leaves from at balance 0 and to with both balances. (maxAmount may be 0:
\* see the witness.)
C29_SuggestionActionable ==
    \A owner \in Addresses :
        LET r == suggestMerge(Ledger, owner)
            F == r.fromTokenId
            D == r.toTokenId
        IN  r.canMerge
            => /\ F # D
               /\ F \in DOMAIN tokens /\ D \in DOMAIN tokens
               /\ tokens[F].owner = owner /\ tokens[D].owner = owner
               /\ tokens[F].slot = tokens[D].slot
               /\ r.maxAmount = tokens[F].balance
               /\ r.maxAmount <= tokens[D].balance
               /\ LET m == mergeValueExec(Ledger, owner, F, D, r.maxAmount)
                  IN  /\ m.err = ""
                      /\ m.st.tokens[F].balance = 0
                      /\ m.st.tokens[D].balance
                           = tokens[F].balance + tokens[D].balance

\* A token of zero value is suggested as source: canMerge with maxAmount 0.
C29_Witness ==
    \E owner \in Addresses :
        LET r == suggestMerge(Ledger, owner)
        IN  /\ r.canMerge
            /\ r.maxAmount = 0
            /\ tokens[r.toTokenId].balance > 0


\* C30. No package token is ever created: in every reachable state
\* tokenToPackage is 0 for every token id and every recorded package is
\* active with totalValue = availableValue = 0; createDevicePackage succeeds
\* only with three empty lists, and then records such a package under a
\* fresh id, mints no token and moves the token id counter on by one;
\* purchasePartialPackage fails whenever it is called.
C30_NoPackageToken ==
    /\ \A id \in TokenIdArgs \cup DOMAIN tokens \cup DOMAIN tokenToPackage :
          tokenToPackageAt(Ledger, id) = 0
    /\ \A p \in DOMAIN devicePackages :
          /\ devicePackages[p].totalValue = 0
          /\ devicePackages[p].availableValue = 0
          /\ devicePackages[p].isActive
    /\ (last.op = "createDevicePackage" /\ Succeeded)
       => /\ last.a.deviceTypes = << >>
          /\ last.a.tokenIds = << >>
          /\ last.a.amounts = << >>
          /\ last.ret = pre.packageIdCounter
          /\ DOMAIN devicePackages = DOMAIN pre.devicePackages \cup {last.ret}
          /\ last.ret \notin DOMAIN pre.devicePackages
          /\ tokens = pre.tokens
          /\ tokenIdCounter = pre.tokenIdCounter + 1
          /\ pre.tokenIdCounter \notin DOMAIN tokens
    /\ last.op = "purchasePartialPackage" => Reverted

\* With a token in existence, createDevicePackage has succeeded on empty
\* lists and has used up a token id.
C30_Witness ==
    /\ last.op = "createDevicePackage"
    /\ Succeeded
    /\ DOMAIN tokens # {}
    /\ tokenIdCounter = pre.tokenIdCounter + 1
    /\ last.ret \in DOMAIN devicePackages

=============================================================================
